---- MODULE Spec2Model ----
(***************************************************************************)
(* Model of the S3 storage adapter of sputnik-systems/backup-storage       *)
(* (src/s3/s3.go, the revision with the isdir field, lines 212-479):       *)
(* List / list, Delete, Upload, Download and uploadPart, together with the *)
(* remote object store primitives those methods call.                      *)
(*                                                                         *)
(* Strings (keys, names, prefixes) are sequences of one-character strings, *)
(* byte slices are sequences of small naturals.                            *)
(***************************************************************************)
EXTENDS Integers, Sequences, FiniteSets, TLC

(***************************************************************************)
(* Bounds of the model.                                                    *)
(***************************************************************************)
\* The part size: 100 MiB in NewStorage (s3.go:242), scaled down here.
partSize == 2
\* Longest source stream handed to Upload.
MaxLen == 5
\* Number of calls in one behaviour of Spec: an Upload, if any, comes first
\* and Download calls follow.
MaxOps == 2
\* Page size of the paginated remote listing.
MaxKeys == 2

(***************************************************************************)
(* Strings.                                                                *)
(***************************************************************************)
\* Byte value of a character (Go compares strings bytewise).
Ord(c) ==
  CASE c = "." -> 46
    [] c = "/" -> 47
    [] c = "a" -> 97
    [] c = "b" -> 98
    [] c = "c" -> 99
    [] c = "p" -> 112
    [] c = "z" -> 122

MinOf(a, b) == IF a < b THEN a ELSE b

\* Go's s < t on strings, compared from position i on.
RECURSIVE LessFrom(_, _, _)
LessFrom(s, t, i) ==
  IF i > Len(t) THEN FALSE
  ELSE IF i > Len(s) THEN TRUE
  ELSE IF s[i] = t[i] THEN LessFrom(s, t, i + 1)
  ELSE Ord(s[i]) < Ord(t[i])

\* Go's s < t on strings.
StrLess(s, t) == LessFrom(s, t, 1)

\* strings.HasPrefix, the remote store's Prefix filter.
HasPrefix(s, p) == Len(p) <= Len(s) /\ SubSeq(s, 1, Len(p)) = p

\* Index of the last "/" in s at or before position i, 0 when there is none.
RECURSIVE LastSlashUpTo(_, _)
LastSlashUpTo(s, i) ==
  IF i = 0 THEN 0
  ELSE IF s[i] = "/" THEN i
  ELSE LastSlashUpTo(s, i - 1)

\* strings.LastIndex(s, "/") + 1
LastSlash(s) == LastSlashUpTo(s, Len(s))

\* The "/"-separated segments of s from position i on, cur being the segment
\* read so far; empty segments included.
RECURSIVE SegmentsFrom(_, _, _)
SegmentsFrom(s, i, cur) ==
  IF i > Len(s) THEN <<cur>>
  ELSE IF s[i] = "/" THEN <<cur>> \o SegmentsFrom(s, i + 1, <<>>)
  ELSE SegmentsFrom(s, i + 1, Append(cur, s[i]))

Segments(s) == SegmentsFrom(s, 1, <<>>)

\* path.Clean's pass over the segments: drop empty and ".", resolve "..".
RECURSIVE CleanSegs(_, _, _)
CleanSegs(segs, stack, rooted) ==
  IF segs = <<>> THEN stack
  ELSE LET e == Head(segs)
           rest == Tail(segs)
       IN IF e = <<>> \/ e = <<".">>
          THEN CleanSegs(rest, stack, rooted)
          ELSE IF e = <<".", ".">>
          THEN IF stack # <<>> /\ stack[Len(stack)] # <<".", ".">>
               THEN CleanSegs(rest, SubSeq(stack, 1, Len(stack) - 1), rooted)
               ELSE IF rooted
               THEN CleanSegs(rest, stack, rooted)
               ELSE CleanSegs(rest, Append(stack, e), rooted)
          ELSE CleanSegs(rest, Append(stack, e), rooted)

RECURSIVE JoinSegs(_)
JoinSegs(segs) ==
  IF segs = <<>> THEN <<>>
  ELSE IF Len(segs) = 1 THEN segs[1]
  ELSE segs[1] \o <<"/">> \o JoinSegs(Tail(segs))

\* path.Clean
Clean(s) ==
  IF s = <<>> THEN <<".">>
  ELSE LET rooted == s[1] = "/"
           out == (IF rooted THEN <<"/">> ELSE <<>>)
                    \o JoinSegs(CleanSegs(Segments(s), <<>>, rooted))
       IN IF out = <<>> THEN <<".">> ELSE out

\* path.Dir: the text up to and including the last "/", cleaned.
Dir(s) == Clean(SubSeq(s, 1, LastSlash(s)))

\* path.Join of two elements.
Join(a, b) ==
  IF a = <<>> /\ b = <<>> THEN <<>>
  ELSE IF a = <<>> THEN Clean(b)
  ELSE IF b = <<>> THEN Clean(a)
  ELSE Clean(a \o <<"/">> \o b)

(***************************************************************************)
(* Adapter configuration and the objects the remote store may hold.        *)
(***************************************************************************)
\* S3.prefix, the namespace root given to NewStorage.
prefix == <<"p">>

\* Number of objects in the bucket at the start of a behaviour of SpecList.
MaxObjs == 2

\* Keys the bucket may hold: a file, two files nested under it, a key that
\* ends in the separator, a sibling that shares leading characters and the
\* bare prefix.
KeyUniverse ==
  { <<"p", "/", "a">>,
    <<"p", "/", "a", "/", "b">>,
    <<"p", "/", "a", "/", "c">>,
    <<"p", "/", "a", "/">>,
    <<"p", "/", "a", "b">>,
    <<"p">> }

\* Names handed to Delete.
DeleteNames == { <<"a">>, <<"a", "/", "b">>, <<"z">> }

\* Byte values of object bodies and source streams.
Bytes == {1, 2}

\* Modification times, in half seconds: two of them share a second.
Times == {0, 1, 2}

\* time.Time.Unix(): whole seconds; model times count half seconds.
Unix(t) == t \div 2

(***************************************************************************)
(* FileInfo and the listing (S3.List, S3.list).                            *)
(***************************************************************************)
FileInfo(n, sz, mt, d) == [name |-> n, size |-> sz, mtime |-> mt, isdir |-> d]

\* Keys of S in ascending bytewise order, the order the remote listing uses.
RECURSIVE KeysAsc(_)
KeysAsc(S) ==
  IF S = {} THEN <<>>
  ELSE LET m == CHOOSE k \in S : \A j \in S \ {k} : StrLess(k, j)
       IN <<m>> \o KeysAsc(S \ {m})

\* ListObjectsV2: the objects of the bucket whose key starts with pfx.
Contents(st, pfx) ==
  LET ks == KeysAsc({k \in DOMAIN st : HasPrefix(k, pfx)})
  IN [i \in 1..Len(ks) |->
        [Key |-> ks[i], Size |-> Len(st[ks[i]].body), LastModified |-> st[ks[i]].mtime]]

\* The pages of a listing, MaxKeys objects each; an empty listing is one empty page.
RECURSIVE Pages(_)
Pages(objs) ==
  IF Len(objs) <= MaxKeys THEN <<objs>>
  ELSE <<SubSeq(objs, 1, MaxKeys)>> \o Pages(SubSeq(objs, MaxKeys + 1, Len(objs)))

\* The page callback of list: append one FileInfo per object of the page.
PageCallback(fi, page) ==
  fi \o [i \in 1..Len(page) |->
           FileInfo(page[i].Key, page[i].Size, page[i].LastModified, FALSE)]

\* fi after ListObjectsV2Pages has delivered the first n pages.
RECURSIVE Accumulate(_, _)
Accumulate(pages, n) ==
  IF n = 0 THEN <<>>
  ELSE PageCallback(Accumulate(pages, n - 1), pages[n])

\* The index orders the contract of sort.Slice allows: every permutation of
\* idx in which no element precedes one that is less than it (sort.Slice is
\* not stable).
RECURSIVE SortedOrders(_, _)
SortedOrders(idx, less) ==
  IF idx = {} THEN {<<>>}
  ELSE UNION { { <<m>> \o t : t \in SortedOrders(idx \ {m}, less) } :
               m \in { i \in idx : \A j \in idx : ~less[j, i] } }

Permute(s, order) == [i \in 1..Len(s) |-> s[order[i]]]

\* sort.Slice is a function of its input: the same slice is always left in
\* the same order.  Which order it gives to elements that compare equal is
\* the algorithm's affair; tie says which way the build at hand settles it.
VARIABLE tie

\* Elements that compare equal stay in their input order, or end up reversed.
TiePolicies == {"first", "last"}

\* A sort whose order of equal elements may differ from one call to the next.
SortSliceAnyOrder(idx, less) == SortedOrders(idx, less)

\* The order sort.Slice leaves idx in: sorted by less, ties settled by tie.
SortSlice(idx, less) ==
  { o \in SortedOrders(idx, less) :
      \A a, b \in 1..Len(o) :
        (a < b /\ ~less[o[a], o[b]] /\ ~less[o[b], o[a]])
          => IF tie = "first" THEN o[a] < o[b] ELSE o[a] > o[b] }

\* sort.Slice(fi, ModTime().Unix() ascending)
SortByMtime(fi) ==
  LET less == [i \in 1..Len(fi), j \in 1..Len(fi) |->
                 Unix(fi[i].mtime) < Unix(fi[j].mtime)]
  IN { Permute(fi, o) : o \in SortSlice(1..Len(fi), less) }

\* sort.Slice(fi, Name() descending)
SortByNameDesc(fi) ==
  LET less == [i \in 1..Len(fi), j \in 1..Len(fi) |-> StrLess(fi[j].name, fi[i].name)]
  IN { Permute(fi, o) : o \in SortSlice(1..Len(fi), less) }

\* "calc directories": one candidate per object, path.Dir(name) + "/".
DirCandidates(fi) ==
  [i \in 1..Len(fi) |-> FileInfo(Dir(fi[i].name) \o <<"/">>, 0, fi[i].mtime, TRUE)]

\* A deduplication that keeps the last candidate of each name instead.
DedupKeepLast(in) ==
  LET keep == { i \in 1..Len(in) : \A j \in (i + 1)..Len(in) : in[j].name # in[i].name }
      RECURSIVE Pick(_)
      Pick(i) == IF i > Len(in) THEN <<>>
                 ELSE (IF i \in keep THEN <<in[i]>> ELSE <<>>) \o Pick(i + 1)
  IN Pick(1)

\* The deduplication closure: keep the first candidate of each name.
Dedup(in) ==
  LET keep == { i \in 1..Len(in) : \A j \in 1..(i - 1) : in[j].name # in[i].name }
      RECURSIVE Pick(_)
      Pick(i) == IF i > Len(in) THEN <<>>
                 ELSE (IF i \in keep THEN <<in[i]>> ELSE <<>>) \o Pick(i + 1)
  IN Pick(1)

\* fi = append(fi, di...) with the final sort left out.
FinalSortMissing(fi, di) == { fi \o di }

\* fi = append(fi, di...) followed by the final sort.
FinalSort(fi, di) == SortByNameDesc(fi \o di)

\* What list(pfx) may return on success, given the accumulated objects.
Listings(fi0) ==
  UNION { FinalSort(s, Dedup(DirCandidates(s))) : s \in SortByMtime(fi0) }

\* Outcomes of list(pfx): success, or the error of ListObjectsV2Pages with
\* the objects of the pages delivered before it.
ListOutcomes(st, pfx) ==
  LET pages == Pages(Contents(st, pfx))
  IN { [err |-> FALSE, fi |-> r] : r \in Listings(Accumulate(pages, Len(pages))) }
       \cup { [err |-> TRUE, fi |-> Accumulate(pages, n)] : n \in 0..(Len(pages) - 1) }

(***************************************************************************)
(* State.                                                                  *)
(***************************************************************************)
VARIABLES
  store,     \* the bucket: key -> [body, mtime]
  sessions,  \* multipart sessions of the remote store, indexed by upload id
  clock,     \* the remote store's clock, stamps LastModified
  lres,      \* outcome of the last List or Delete call
  pc,        \* position of the running Upload/Download call
  name,      \* its name argument
  rdFull,    \* whether its reader fills the buffer and reports EOF alone
  content,   \* the whole stream the reader will deliver
  src,       \* the part of the stream not yet read
  reads,     \* the data of each Read call that returned bytes, in order
  rlog,      \* count and error of each Read call, those of (0, nil) left out
  arr,       \* backing array of b (partSize bytes)
  blen,      \* len(b)
  mupload,   \* upload id of the multipart session, 0 for nil
  mparts,    \* completed parts collected so far
  calls,     \* remote calls issued by the running call, in order
  sink,      \* bytes written to the Download sink
  maxWrite,  \* length of the longest slice handed to the sink's Write
  ret,       \* the last Upload/Download call and what it returned
  uploaded,  \* key -> stream and reader kind of the last successful Upload to it
  nops,      \* number of Upload and Download calls started
  conc       \* the Upload calls that run side by side, and their buffers

listVars == <<lres, tie>>
xferVars == <<sessions, clock, pc, name, rdFull, content, src, reads, rlog, arr, blen,
              mupload, mparts, calls, sink, maxWrite, ret, uploaded, nops, conc>>
vars == <<store, listVars, xferVars>>

Object(b, t) == [body |-> b, mtime |-> t]

NoResult ==
  [op |-> "none", arg |-> <<>>, pfx |-> <<>>, err |-> FALSE, fi |-> <<>>,
   sent |-> FALSE, req |-> <<>>, before |-> <<>>, prior |-> {}]

\* No calls run side by side.
NoCalls == [u |-> <<>>, bufs |-> <<>>]

\* No Upload or Download call is running or has run.
XferIdle ==
  /\ sessions = <<>>
  /\ clock = 0
  /\ pc = "idle"
  /\ name = <<>>
  /\ rdFull = TRUE
  /\ content = <<>>
  /\ src = <<>>
  /\ reads = <<>>
  /\ rlog = <<>>
  /\ arr = <<>>
  /\ blen = 0
  /\ mupload = 0
  /\ mparts = <<>>
  /\ calls = <<>>
  /\ sink = <<>>
  /\ maxWrite = 0
  /\ ret = [op |-> "none", status |-> "none"]
  /\ uploaded = <<>>
  /\ nops = 0

(***************************************************************************)
(* List and Delete.                                                        *)
(***************************************************************************)
\* The buckets a behaviour of SpecList may start from.
Buckets ==
  UNION { [S -> { Object(b, t) : b \in {<<>>, <<1>>}, t \in Times }] :
          S \in { T \in SUBSET KeyUniverse : Cardinality(T) <= MaxObjs } }

\* What the successful List calls since the last Delete returned, the call
\* before this one included.
Prior ==
  IF lres.op # "List" THEN {}
  ELSE IF lres.err THEN lres.prior
  ELSE lres.prior \cup {lres.fi}

\* S3.List
List ==
  \E o \in ListOutcomes(store, prefix) :
    /\ lres' = [op |-> "List", arg |-> <<>>, pfx |-> prefix, err |-> o.err,
                fi |-> o.fi, sent |-> FALSE, req |-> <<>>, before |-> store,
                prior |-> Prior]
    /\ UNCHANGED <<store, tie, xferVars>>

\* A request that misses the first entry of fi.
DeleteKeysSkipFirst(fi) == [i \in 1..(Len(fi) - 1) |-> fi[i + 1].name]

\* The keys Delete names in its request: the name of every entry of fi.
DeleteKeys(fi) == [i \in 1..Len(fi) |-> fi[i].name]

\* DeleteObjects: a request naming no key is rejected; otherwise the named
\* keys are removed (keys that do not exist are ignored), or the call fails.
DeleteObjects(st, oi) ==
  LET ks == { oi[i] : i \in 1..Len(oi) }
  IN IF oi = <<>>
     THEN { [err |-> TRUE, store |-> st] }
     ELSE { [err |-> FALSE, store |-> [k \in DOMAIN st \ ks |-> st[k]]],
            [err |-> TRUE, store |-> st] }

\* S3.Delete
Delete(n) ==
  LET pfx == Join(prefix, n)
  IN \E o \in ListOutcomes(store, pfx) :
       IF o.err
       THEN /\ lres' = [op |-> "Delete", arg |-> n, pfx |-> pfx, err |-> TRUE,
                        fi |-> o.fi, sent |-> FALSE, req |-> <<>>, before |-> store,
                        prior |-> {}]
            /\ UNCHANGED <<store, tie, xferVars>>
       ELSE \E d \in DeleteObjects(store, DeleteKeys(o.fi)) :
              /\ store' = d.store
              /\ lres' = [op |-> "Delete", arg |-> n, pfx |-> pfx, err |-> d.err,
                          fi |-> o.fi, sent |-> TRUE, req |-> DeleteKeys(o.fi),
                          before |-> store, prior |-> {}]
              /\ UNCHANGED <<tie, xferVars>>

DeleteAny == \E n \in DeleteNames : Delete(n)

InitList ==
  /\ store \in Buckets
  /\ tie \in TiePolicies
  /\ lres = NoResult
  /\ conc = NoCalls
  /\ XferIdle

NextList == List \/ DeleteAny

SpecList == InitList /\ [][NextList]_vars

(***************************************************************************)
(* Claims about List and Delete, checked under SpecList.                   *)
(***************************************************************************)
\* k is prefix/name itself or nested under it.
Under(k, p) == k = p \/ HasPrefix(k, p \o <<"/">>)

DeleteSucceeded == lres.op = "Delete" /\ ~lres.err
ListSucceeded == lres.op = "List" /\ ~lres.err

\* C6: after a successful Delete(name) no object whose key equals prefix/name
\* or is nested under it remains in the bucket, and every successful listing
\* scoped under prefix/name is the empty sequence.
C6_DeleteRecursive ==
  DeleteSucceeded =>
    /\ \A k \in DOMAIN store : ~Under(k, lres.pfx)
    /\ \A o \in ListOutcomes(store, lres.pfx) : ~o.err => o.fi = <<>>

\* A successful Delete("a") on a bucket that held the two nested files.
C6_Witness ==
  /\ DeleteSucceeded
  /\ lres.arg = <<"a">>
  /\ {<<"p", "/", "a", "/", "b">>, <<"p", "/", "a", "/", "c">>} \subseteq DOMAIN lres.before

\* C7: when no key of the bucket matches prefix/name and the listing itself
\* does not fail, Delete(name) returns success and leaves the bucket unchanged
\* (the batch delete rejects a request that names no keys).
C7_DeleteNoop ==
  (/\ lres.op = "Delete"
   /\ lres.sent
   /\ \A k \in DOMAIN lres.before : ~HasPrefix(k, lres.pfx))
    => ~lres.err /\ store = lres.before

\* C8: when exactly one key equals prefix/name and no other key has it as a
\* prefix, a successful Delete(name) removes that key and nothing else.
C8_DeleteSingleFile ==
  (/\ DeleteSucceeded
   /\ lres.pfx \in DOMAIN lres.before
   /\ \A k \in DOMAIN lres.before \ {lres.pfx} : ~HasPrefix(k, lres.pfx))
    => store = [k \in DOMAIN lres.before \ {lres.pfx} |-> lres.before[k]]

\* C9: the sequence a successful List returns is in descending order of
\* name: of two adjacent entries the earlier name is not less than the later.
C9_ListDescending ==
  ListSucceeded =>
    \A i \in 1..(Len(lres.fi) - 1) : ~StrLess(lres.fi[i].name, lres.fi[i + 1].name)

\* A successful List that returned objects and a directory, three entries or more.
C9_Witness ==
  /\ ListSucceeded
  /\ Len(lres.fi) >= 3
  /\ \E i, j \in 1..Len(lres.fi) :
       /\ lres.fi[i].isdir
       /\ ~lres.fi[j].isdir
       /\ lres.fi[i].name # lres.fi[j].name

\* C10: a successful List returns one entry per real object plus, for each
\* distinct immediate containing path of a listed object, exactly one entry
\* with that name, and no name appears twice in the result.
C10_DirectorySynthesis ==
  ListSucceeded =>
    LET fi == lres.fi
        objs == { k \in DOMAIN lres.before : HasPrefix(k, lres.pfx) }
        dirs == { Dir(k) \o <<"/">> : k \in objs }
    IN /\ Len(fi) = Cardinality(objs) + Cardinality(dirs)
       /\ \A k \in objs : \E i \in 1..Len(fi) : fi[i].name = k /\ ~fi[i].isdir
       /\ \A d \in dirs : Cardinality({ i \in 1..Len(fi) : fi[i].name = d }) = 1
       /\ \A i, j \in 1..Len(fi) : fi[i].name = fi[j].name => i = j

\* The last call ran list to its end: a List that returned no error, or a
\* Delete that went on to the batch delete.
Listed == (lres.op = "List" /\ ~lres.err) \/ (lres.op = "Delete" /\ lres.sent)

EndsInSeparator(s) == s # <<>> /\ s[Len(s)] = "/"

\* C11: for every FileInfo a successful List returns, IsDir() is true if and
\* only if Size() is 0 and the name ends in the path separator.
C11_DirectoryFlag ==
  ListSucceeded =>
    \A i \in 1..Len(lres.fi) :
      lres.fi[i].isdir <=> (lres.fi[i].size = 0 /\ EndsInSeparator(lres.fi[i].name))

\* One direction of C11: an entry flagged as a directory has size 0 and a
\* name that ends in the path separator.
DirectoryFlagImplies ==
  ListSucceeded =>
    \A i \in 1..Len(lres.fi) :
      lres.fi[i].isdir => (lres.fi[i].size = 0 /\ EndsInSeparator(lres.fi[i].name))

\* C12: every FileInfo of a listing scoped to a prefix P, real object or
\* synthesized directory, has a name that starts with P.
C12_NamesUnderPrefix ==
  Listed => \A i \in 1..Len(lres.fi) : HasPrefix(lres.fi[i].name, lres.pfx)

\* The entries of a listing, as a set.
Entries(fi) == { fi[i] : i \in 1..Len(fi) }

Children(fi, d) ==
  { k \in 1..Len(fi) : ~fi[k].isdir /\ Dir(fi[k].name) \o <<"/">> = d }

C14_DeleteSendsRealKeys ==
  (lres.op = "Delete" /\ lres.sent) =>
    \A i \in 1..Len(lres.req) :
      lres.req[i] \in DOMAIN lres.before /\ HasPrefix(lres.req[i], lres.pfx)

\* C19: Delete(name) never removes an object whose key is neither equal to
\* prefix/name nor nested under prefix/name followed by the path separator.
C19_DeleteFrame ==
  lres.op = "Delete" =>
    \A k \in DOMAIN lres.before :
      ~Under(k, lres.pfx) => (k \in DOMAIN store /\ store[k] = lres.before[k])

(***************************************************************************)
(* The remote store's object and multipart primitives.                     *)
(***************************************************************************)
\* Names handed to Upload and Download.
XferNames == { <<"a">> }

\* Bodies of the object the bucket may hold before the first call.
SeedBodies == { <<1, 2, 1>> }

\* The streams a reader may deliver.
Streams == UNION { [1..k -> Bytes] : k \in 0..MaxLen }

Zeros(n) == [i \in 1..n |-> 0]

\* The opaque part identifier UploadPart returns: a digest of the body.
ETag(body) == <<"etag", body>>

RECURSIVE Concat(_)
Concat(ss) == IF ss = <<>> THEN <<>> ELSE Head(ss) \o Concat(Tail(ss))

\* PutObject: the key holds body from now on.
PutObject(st, key, body, t) ==
  [k \in DOMAIN st \cup {key} |-> IF k = key THEN Object(body, t) ELSE st[k]]

\* CreateMultipartUpload: a new open session; its id is its index.
CreateMultipartUpload(ss, key) ==
  Append(ss, [key |-> key, parts |-> <<>>, open |-> TRUE])

\* UploadPart: the session keeps body under the part number.
UploadPart(ss, id, pn, body) ==
  [ss EXCEPT ![id].parts =
     [q \in DOMAIN ss[id].parts \cup {pn} |-> IF q = pn THEN body ELSE ss[id].parts[q]]]

\* Whether CompleteMultipartUpload accepts the part list: part numbers
\* ascending, each part uploaded to the session with the identifier listed.
CompleteAccepts(ss, id, parts) ==
  /\ ss[id].open
  /\ parts # <<>>
  /\ \A i \in 1..(Len(parts) - 1) : parts[i].PartNumber < parts[i + 1].PartNumber
  /\ \A i \in 1..Len(parts) :
       /\ parts[i].PartNumber \in DOMAIN ss[id].parts
       /\ parts[i].ETag = ETag(ss[id].parts[parts[i].PartNumber])

\* The object CompleteMultipartUpload commits: the listed parts, concatenated.
CompleteBody(ss, id, parts) ==
  Concat([i \in 1..Len(parts) |-> ss[id].parts[parts[i].PartNumber]])

(***************************************************************************)
(* Readers.                                                                *)
(***************************************************************************)
\* What one Read(b) may return, b of length cap, with rest still to come:
\* n bytes and nil, io.EOF or another error.  A full reader (bytes.Reader,
\* os.File) fills b as far as data remains and reports io.EOF with no bytes;
\* any other reader may return fewer bytes, none, and io.EOF with the last.
ReadOutcomes(full, rest, cap) ==
  IF full
  THEN IF rest = <<>>
       THEN { [n |-> 0, e |-> "EOF"] }
       ELSE { [n |-> MinOf(cap, Len(rest)), e |-> "nil"] }
  ELSE { r \in [n : 0..MinOf(cap, Len(rest)), e : {"nil", "EOF", "err"}] :
           r.e = "EOF" => r.n = Len(rest) }

\* The slice b.
B == SubSeq(arr, 1, blen)

\* The backing array after Read stored data at its start.
Stored(data) == data \o SubSeq(arr, Len(data) + 1, Len(arr))

Logged(data) == IF data = <<>> THEN reads ELSE Append(reads, data)

\* A Read that returns no bytes and no error leaves no trace in rlog.
LoggedRead(r) == IF r.n = 0 /\ r.e = "nil" THEN rlog ELSE Append(rlog, r)

\* if int64(n) == s.partSize
IsFullChunk(n) == n = partSize

\* A return that reports success whatever happened.
ReturnsNil(op, status) == ret' = [op |-> op, status |-> "nil"] /\ pc' = "idle"

Returns(op, status) == ret' = [op |-> op, status |-> status] /\ pc' = "idle"

(***************************************************************************)
(* Upload.                                                                 *)
(***************************************************************************)
Key == Join(prefix, name)

\* Upload is called: key, b := make([]byte, partSize), nothing opened yet.
UploadBegin(n, c, full) ==
  /\ pc = "idle"
  /\ nops = 0
  /\ nops' = nops + 1
  /\ pc' = "upload"
  /\ ret' = [op |-> "Upload", status |-> "running"]
  /\ name' = n
  /\ rdFull' = full
  /\ content' = c
  /\ src' = c
  /\ reads' = <<>>
  /\ rlog' = <<>>
  /\ arr' = Zeros(partSize)
  /\ blen' = partSize
  /\ mupload' = 0
  /\ mparts' = <<>>
  /\ calls' = <<>>
  /\ sink' = <<>>
  /\ maxWrite' = 0
  /\ UNCHANGED <<store, sessions, clock, uploaded, lres, tie, conc>>

\* The part number uploadPart is given: int64(len(mparts)+1), from zero.
PartNumberZeroBased(parts) == Len(parts)

\* The part number uploadPart is given: int64(len(mparts)+1).
PartNumber(parts) == Len(parts) + 1

\* The body of the if int64(n) == s.partSize block, b being the chunk read.
UploadFullChunk(b) ==
  /\ UNCHANGED <<store, clock, uploaded>>
  /\ \E createOk, partOk \in BOOLEAN :
       LET opening == mupload = 0
           id == IF opening THEN Len(sessions) + 1 ELSE mupload
           pn == PartNumber(mparts)
           created == [call |-> "CreateMultipartUpload", key |-> Key, ok |-> createOk,
                       id |-> id, rd |-> Len(rlog) + 1]
           sent == [call |-> "UploadPart", key |-> Key, ok |-> partOk, id |-> id,
                    pn |-> pn, body |-> b]
           ss1 == IF opening THEN CreateMultipartUpload(sessions, Key) ELSE sessions
           calls1 == IF opening THEN Append(calls, created) ELSE calls
       IN IF opening /\ ~createOk
          THEN /\ calls' = calls1
               /\ Returns("Upload", "err")
               /\ UNCHANGED <<sessions, mupload, mparts>>
          ELSE /\ createOk
               /\ mupload' = id
               /\ calls' = Append(calls1, sent)
               /\ IF partOk
                  THEN /\ sessions' = UploadPart(ss1, id, pn, b)
                       /\ mparts' = Append(mparts, [ETag |-> ETag(b), PartNumber |-> pn])
                       /\ UNCHANGED <<pc, ret>>
                  ELSE /\ sessions' = ss1
                       /\ Returns("Upload", "err")
                       /\ UNCHANGED mparts

\* One turn of the read loop of Upload.
UploadRead ==
  /\ pc = "upload"
  /\ \E r \in ReadOutcomes(rdFull, src, blen) :
       LET data == SubSeq(src, 1, r.n)
       IN /\ src' = SubSeq(src, r.n + 1, Len(src))
          /\ arr' = Stored(data)
          /\ reads' = Logged(data)
          /\ rlog' = LoggedRead(r)
          /\ CASE r.e = "EOF" ->
                    /\ pc' = "flush"
                    /\ UNCHANGED <<blen, store, sessions, clock, mupload, mparts, calls,
                                   ret, uploaded>>
               [] r.e = "err" ->
                    /\ Returns("Upload", "err")
                    /\ UNCHANGED <<blen, store, sessions, clock, mupload, mparts, calls,
                                   uploaded>>
               [] r.e = "nil" ->
                    /\ blen' = r.n
                    /\ IF IsFullChunk(r.n)
                       THEN UploadFullChunk(data)
                       ELSE UNCHANGED <<pc, store, sessions, clock, mupload, mparts,
                                        calls, ret, uploaded>>
  /\ UNCHANGED <<name, rdFull, content, sink, maxWrite, nops, lres, tie, conc>>

\* The stream of a successful Upload is remembered under its key.
Remember(key, c) ==
  [k \in DOMAIN uploaded \cup {key} |->
     IF k = key THEN [stream |-> c, full |-> rdFull] ELSE uploaded[k]]

\* After the loop, no session opened: one PutObject with b as the body.
UploadFlushSingle ==
  /\ pc = "flush"
  /\ mupload = 0
  /\ \E ok \in BOOLEAN :
       /\ calls' = Append(calls, [call |-> "PutObject", key |-> Key, ok |-> ok, body |-> B])
       /\ IF ok
          THEN /\ store' = PutObject(store, Key, B, clock)
               /\ uploaded' = Remember(Key, content)
               /\ Returns("Upload", "nil")
          ELSE /\ Returns("Upload", "err")
               /\ UNCHANGED <<store, uploaded>>
  /\ UNCHANGED <<sessions, clock, name, rdFull, content, src, reads, rlog, arr, blen, mupload,
                 mparts, sink, maxWrite, nops, lres, tie, conc>>

\* After the loop, a session open: b as the last part, then the complete call.
UploadFlushMultipart ==
  /\ pc = "flush"
  /\ mupload # 0
  /\ \E partOk, completeOk \in BOOLEAN :
       LET pn == PartNumber(mparts)
           sent == [call |-> "UploadPart", key |-> Key, ok |-> partOk, id |-> mupload,
                    pn |-> pn, body |-> B]
           ss1 == UploadPart(sessions, mupload, pn, B)
           parts == Append(mparts, [ETag |-> ETag(B), PartNumber |-> pn])
           accepted == completeOk /\ CompleteAccepts(ss1, mupload, parts)
           completed == [call |-> "CompleteMultipartUpload", key |-> Key, ok |-> accepted,
                         id |-> mupload, parts |-> parts]
       IN IF ~partOk
          THEN /\ calls' = Append(calls, sent)
               /\ Returns("Upload", "err")
               /\ UNCHANGED <<store, sessions, mparts, uploaded>>
          ELSE /\ calls' = calls \o <<sent, completed>>
               /\ mparts' = parts
               /\ IF accepted
                  THEN /\ store' = PutObject(store, Key, CompleteBody(ss1, mupload, parts),
                                             clock)
                       /\ sessions' = [ss1 EXCEPT ![mupload].open = FALSE]
                       /\ uploaded' = Remember(Key, content)
                       /\ Returns("Upload", "nil")
                  ELSE /\ sessions' = ss1
                       /\ Returns("Upload", "err")
                       /\ UNCHANGED <<store, uploaded>>
  /\ UNCHANGED <<clock, name, rdFull, content, src, reads, rlog, arr, blen, mupload, sink,
                 maxWrite, nops, lres, tie, conc>>

(***************************************************************************)
(* Download.                                                               *)
(***************************************************************************)
\* Download is called: GetObject, then b := make([]byte, partSize).
DownloadBegin(n, full) ==
  /\ pc = "idle"
  /\ nops < MaxOps
  /\ nops' = nops + 1
  /\ name' = n
  /\ \E ok \in BOOLEAN :
       LET key == Join(prefix, n)
           found == ok /\ key \in DOMAIN store
       IN /\ calls' = <<[call |-> "GetObject", key |-> key, ok |-> found]>>
          /\ content' = IF found THEN store[key].body ELSE <<>>
          /\ src' = content'
          /\ IF found
             THEN /\ pc' = "download"
                  /\ ret' = [op |-> "Download", status |-> "running"]
             ELSE Returns("Download", "err")
  /\ rdFull' = full
  /\ reads' = <<>>
  /\ rlog' = <<>>
  /\ arr' = Zeros(partSize)
  /\ blen' = partSize
  /\ mupload' = 0
  /\ mparts' = <<>>
  /\ sink' = <<>>
  /\ maxWrite' = 0
  /\ UNCHANGED <<store, sessions, clock, uploaded, lres, tie, conc>>

\* One turn of the read loop of Download.
DownloadRead ==
  /\ pc = "download"
  /\ \E r \in ReadOutcomes(rdFull, src, blen) :
       LET data == SubSeq(src, 1, r.n)
       IN /\ src' = SubSeq(src, r.n + 1, Len(src))
          /\ arr' = Stored(data)
          /\ reads' = Logged(data)
          /\ rlog' = LoggedRead(r)
          /\ CASE r.e = "EOF" ->
                    /\ Returns("Download", "nil")
                    /\ UNCHANGED <<blen, sink, maxWrite>>
               [] r.e = "err" ->
                    /\ Returns("Download", "err")
                    /\ UNCHANGED <<blen, sink, maxWrite>>
               [] r.e = "nil" ->
                    /\ blen' = r.n
                    /\ maxWrite' = IF r.n > maxWrite THEN r.n ELSE maxWrite
                    /\ \/ /\ sink' = sink \o data
                          /\ UNCHANGED <<pc, ret>>
                       \/ /\ \E k \in 0..r.n : sink' = sink \o SubSeq(data, 1, k)
                          /\ Returns("Download", "err")
  /\ UNCHANGED <<store, sessions, clock, name, rdFull, content, mupload, mparts, calls,
                 uploaded, nops, lres, tie, conc>>

UploadAny == \E n \in XferNames, c \in Streams, full \in BOOLEAN : UploadBegin(n, c, full)

DownloadAny == \E n \in XferNames, full \in BOOLEAN : DownloadBegin(n, full)

(***************************************************************************)
(* Upload calls that run side by side on one adapter.  Everything a call   *)
(* uses is a local of Upload (s3.go:334-340); the S3 struct is only read.  *)
(* A call is followed from one remote call to the next; its reader fills   *)
(* the buffer as far as data remains and reports io.EOF alone, and the     *)
(* remote calls succeed.                                                   *)
(***************************************************************************)
Procs == {1, 2}

\* The name each call uploads to.
ConcName(p) == IF p = 1 THEN <<"a">> ELSE <<"b">>

\* The streams call p may be given: its own pattern of bytes, any length.
ConcStreams(p) == { [i \in 1..k |-> ((i + p) % 2) + 1] : k \in 0..MaxLen }

\* All calls share one buffer.
BufferShared(p) == 1

\* The buffer call p uses: b := make([]byte, s.partSize), its own.
BufferOf(p) == p

\* A call at its start.
Started(n, c) ==
  [pc |-> "read", name |-> n, content |-> c, src |-> c, mupload |-> 0, mparts |-> <<>>,
   status |-> "running"]

FreshBuffer == [arr |-> Zeros(partSize), blen |-> partSize]

\* The code of Upload from one remote call to the next, for the call u with
\* the buffer b, the remote store holding the sessions ss and the bucket st.
UStep(u, b, ss, st) ==
  LET key == Join(prefix, u.name)
      body == SubSeq(b.arr, 1, b.blen)
      same == [u |-> u, b |-> b, ss |-> ss, st |-> st]
  IN CASE u.pc = "read" ->
            LET r == CHOOSE x \in ReadOutcomes(TRUE, u.src, b.blen) : TRUE
                data == SubSeq(u.src, 1, r.n)
                arr1 == data \o SubSeq(b.arr, r.n + 1, Len(b.arr))
                u1 == [u EXCEPT !.src = SubSeq(u.src, r.n + 1, Len(u.src))]
            IN IF r.e = "EOF"
               THEN [same EXCEPT !.u = [u1 EXCEPT !.pc = "flush"],
                                 !.b = [b EXCEPT !.arr = arr1]]
               ELSE [same EXCEPT !.u = [u1 EXCEPT !.pc = IF ~IsFullChunk(r.n) THEN "read"
                                                         ELSE IF u.mupload = 0 THEN "create"
                                                         ELSE "part"],
                                 !.b = [arr |-> arr1, blen |-> r.n]]
       [] u.pc = "create" ->
            [same EXCEPT !.u = [u EXCEPT !.pc = "part", !.mupload = Len(ss) + 1],
                         !.ss = CreateMultipartUpload(ss, key)]
       [] u.pc = "part" ->
            LET pn == PartNumber(u.mparts)
            IN [same EXCEPT !.u = [u EXCEPT !.pc = "read",
                                            !.mparts = Append(@, [ETag |-> ETag(body),
                                                                  PartNumber |-> pn])],
                            !.ss = UploadPart(ss, u.mupload, pn, body)]
       [] u.pc = "flush" ->
            IF u.mupload = 0
            THEN [same EXCEPT !.u = [u EXCEPT !.pc = "done", !.status = "nil"],
                              !.st = PutObject(st, key, body, clock)]
            ELSE LET pn == PartNumber(u.mparts)
                 IN [same EXCEPT !.u = [u EXCEPT !.pc = "complete",
                                                 !.mparts = Append(@, [ETag |-> ETag(body),
                                                                       PartNumber |-> pn])],
                                 !.ss = UploadPart(ss, u.mupload, pn, body)]
       [] u.pc = "complete" ->
            IF CompleteAccepts(ss, u.mupload, u.mparts)
            THEN [same EXCEPT !.u = [u EXCEPT !.pc = "done", !.status = "nil"],
                              !.ss = [ss EXCEPT ![u.mupload].open = FALSE],
                              !.st = PutObject(st, key, CompleteBody(ss, u.mupload, u.mparts),
                                               clock)]
            ELSE [same EXCEPT !.u = [u EXCEPT !.pc = "done", !.status = "err"]]

\* The call u run to its end with nothing else going on.
RECURSIVE RunAlone(_, _, _, _)
RunAlone(u, b, ss, st) ==
  IF u.pc = "done" THEN [u |-> u, b |-> b, ss |-> ss, st |-> st]
  ELSE LET n == UStep(u, b, ss, st) IN RunAlone(n.u, n.b, n.ss, n.st)

\* Upload(n, c) as the only call on an empty bucket.
Alone(n, c) == RunAlone(Started(n, c), FreshBuffer, <<>>, <<>>)

\* Call p takes its next step.
ConcStep(p) ==
  /\ conc.u[p].pc # "done"
  /\ LET n == UStep(conc.u[p], conc.bufs[BufferOf(p)], sessions, store)
     IN /\ conc' = [u |-> [conc.u EXCEPT ![p] = n.u],
                    bufs |-> [conc.bufs EXCEPT ![BufferOf(p)] = n.b]]
        /\ sessions' = n.ss
        /\ store' = n.st
  /\ UNCHANGED <<clock, pc, name, rdFull, content, src, reads, rlog, arr, blen, mupload,
                 mparts, calls, sink, maxWrite, ret, uploaded, nops, lres, tie>>

\* Two Upload calls to different names have been started on an empty bucket.
InitConc ==
  /\ store = <<>>
  /\ tie = "first"
  /\ lres = NoResult
  /\ XferIdle
  /\ \E c1 \in ConcStreams(1), c2 \in ConcStreams(2) :
       conc = [u |-> <<Started(ConcName(1), c1), Started(ConcName(2), c2)>>,
               bufs |-> <<FreshBuffer, FreshBuffer>>]

NextConc == \E p \in Procs : ConcStep(p)

SpecConc == InitConc /\ [][NextConc]_vars

\* C18: of two Upload calls to different names that run side by side with
\* their reads and remote calls interleaved in any way, each has its own
\* session and part list, and each ends as it ends when run alone: the same
\* result, the same part list, the same content committed at its own key.
C18_ConcurrentUploads ==
  \A p \in DOMAIN conc.u :
    LET u == conc.u[p]
        key == Join(prefix, u.name)
        alone == Alone(u.name, u.content)
    IN /\ u.mupload # 0 =>
            /\ sessions[u.mupload].key = key
            /\ \A q \in DOMAIN conc.u \ {p} : conc.u[q].mupload # u.mupload
            /\ \A i \in 1..Len(u.mparts) :
                 /\ u.mparts[i].PartNumber = i
                 /\ u.mparts[i].ETag = ETag(sessions[u.mupload].parts[i])
       /\ u.pc = "done" =>
            /\ u.status = alone.u.status
            /\ u.mparts = alone.u.mparts
            /\ key \in DOMAIN store
            /\ store[key].body = alone.st[key].body

\* Both calls are done, both went multipart with a full chunk and a
\* remainder at least, and the second call opened its session first.
C18_Witness ==
  /\ DOMAIN conc.u = Procs
  /\ \A p \in Procs : conc.u[p].pc = "done" /\ Len(conc.u[p].mparts) >= 2
  /\ conc.u[2].mupload = 1
  /\ conc.u[1].mupload = 2

(***************************************************************************)
(* Claims about Upload and Download, checked under Spec.                   *)
(***************************************************************************)
UploadSucceeded == ret = [op |-> "Upload", status |-> "nil"]
DownloadSucceeded == ret = [op |-> "Download", status |-> "nil"]

\* The UploadPart calls of the running call, in the order issued.
PartCalls == SelectSeq(calls, LAMBDA c : c.call = "UploadPart")

\* The i-th chunk of the stream in read order; past the data, the empty chunk.
Chunk(i) == IF i <= Len(reads) THEN reads[i] ELSE <<>>

\* C1: a successful Upload(name, C) followed by a successful Download(name)
\* leaves exactly C in the sink, both readers filling the buffer as far as
\* data remains and reporting end-of-stream on its own.
C1_RoundTrip ==
  (/\ DownloadSucceeded
   /\ rdFull
   /\ Key \in DOMAIN uploaded
   /\ uploaded[Key].full)
    => sink = uploaded[Key].stream

\* C2: when Upload returns success, the content committed at the destination
\* key is the concatenation, in order, of all bytes the reader returned,
\* however the reader split the stream into reads.
C2_UploadCommitsStream ==
  UploadSucceeded => store[Key].body = Concat(reads)

\* C3: when the stream length is a multiple of partSize (zero included) and
\* the last read returns no bytes, a successful Upload flushed an empty body
\* last: an empty PutObject body without a session, otherwise an empty final
\* part after one part per chunk, each chunk sent once.
C3_ChunkBoundary ==
  (/\ UploadSucceeded
   /\ rdFull
   /\ Len(content) % partSize = 0)
    => IF mupload = 0
       THEN calls = <<[call |-> "PutObject", key |-> Key, ok |-> TRUE, body |-> <<>>]>>
       ELSE /\ Len(PartCalls) = Len(content) \div partSize + 1
            /\ PartCalls[Len(PartCalls)].body = <<>>
            /\ Concat([i \in 1..Len(PartCalls) |-> PartCalls[i].body]) = content

\* C4: in every multipart Upload the i-th UploadPart call carries part
\* number i and the i-th chunk in read order, and the list given to
\* CompleteMultipartUpload holds parts 1..N in ascending order, each with
\* the identifier returned for it.
C4_PartOrdering ==
  ret.op = "Upload" =>
    /\ \A i \in 1..Len(PartCalls) :
         PartCalls[i].pn = i /\ PartCalls[i].body = Chunk(i)
    /\ \A j \in 1..Len(calls) :
         calls[j].call = "CompleteMultipartUpload" =>
           calls[j].parts =
             [i \in 1..Len(PartCalls) |->
                [ETag |-> ETag(PartCalls[i].body), PartNumber |-> i]]

\* The numbering half of C4 alone: part numbers run 1, 2, ... without gap or
\* repeat, and the complete call lists them in that order.
PartNumbersInSequence ==
  ret.op = "Upload" =>
    /\ \A i \in 1..Len(PartCalls) : PartCalls[i].pn = i
    /\ \A j \in 1..Len(calls) :
         calls[j].call = "CompleteMultipartUpload" =>
           calls[j].parts =
             [i \in 1..Len(PartCalls) |->
                [ETag |-> ETag(PartCalls[i].body), PartNumber |-> i]]

\* C5: a successful Download has written to the sink exactly the content of
\* the object, in order, in writes of at most partSize bytes, however the
\* body reader split the content into reads.
C5_DownloadCopiesObject ==
  DownloadSucceeded => sink = content /\ maxWrite <= partSize

\* The positions in calls of the remote calls of the kinds named.
CallsOf(kinds) == { j \in 1..Len(calls) : calls[j].call \in kinds }

MultipartCalls ==
  CallsOf({"CreateMultipartUpload", "UploadPart", "CompleteMultipartUpload"})

\* Lazy selection, F being the positions in rlog of the reads that count as
\* returning exactly partSize bytes: at most one session is opened, as the
\* first remote call and at the first read of F; with no read in F no
\* multipart call is made and a successful Upload made one PutObject; with a
\* read in F a successful Upload made one complete call and no PutObject.
LazyMultipart(F) ==
  ret.op = "Upload" =>
    LET creates == CallsOf({"CreateMultipartUpload"})
        puts == CallsOf({"PutObject"})
        completes == CallsOf({"CompleteMultipartUpload"})
    IN /\ Cardinality(creates) <= 1
       /\ creates # {} <=> F # {}
       /\ \A j \in creates : j = 1 /\ calls[j].rd \in F /\ \A i \in F : calls[j].rd <= i
       /\ F = {} => MultipartCalls = {} /\ Cardinality(puts) <= 1
       /\ UploadSucceeded =>
            IF F = {}
            THEN Cardinality(puts) = 1
            ELSE Cardinality(completes) = 1 /\ puts = {}

\* C15: an Upload opens at most one multipart session, exactly at the first
\* read that returns exactly partSize bytes; if no read returns partSize
\* bytes a successful Upload made exactly one PutObject and no multipart
\* call, otherwise exactly one complete call and no PutObject.  (A read that
\* fails ends the Upload and is not counted.)
C15_LazyMultipart ==
  LazyMultipart({ i \in 1..Len(rlog) : rlog[i].n = partSize /\ rlog[i].e # "err" })

\* C15 with only the reads counted that return exactly partSize bytes and a
\* nil error, those that come with io.EOF left out.
LazyMultipartOnPlainReads ==
  LazyMultipart({ i \in 1..Len(rlog) : rlog[i].n = partSize /\ rlog[i].e = "nil" })

\* The Upload call met a failure: a Read reported an error other than
\* io.EOF, or a remote call failed.
ReadFailed == rlog # <<>> /\ rlog[Len(rlog)].e = "err"
CallFailed == \E j \in 1..Len(calls) : ~calls[j].ok
UploadFailed == ret.op = "Upload" /\ (ReadFailed \/ CallFailed)

\* What holds once an Upload has met a failure: it has returned an error;
\* the failed call, if any, is the last remote call issued and the only one
\* that failed, and after a failed Read no call was issued; a session that
\* was opened is still open, with no complete and no abort call for it.
FailureShape ==
  /\ ret = [op |-> "Upload", status |-> "err"]
  /\ pc = "idle"
  /\ \A j \in 1..(Len(calls) - 1) : calls[j].ok
  /\ ReadFailed => ~CallFailed
  /\ CallsOf({"AbortMultipartUpload"}) = {}
  /\ \A j \in CallsOf({"CompleteMultipartUpload"}) : ~calls[j].ok
  /\ mupload # 0 => sessions[mupload].open

\* A step of a running Upload: a failure shows as FailureShape and leaves the
\* bucket as it was; the bucket changes only as the Upload returns success.
UploadStepKeepsBucket ==
  pc \in {"upload", "flush"} =>
    /\ UploadFailed' => (FailureShape' /\ store' = store)
    /\ store' # store => UploadSucceeded'

\* C16: when a source read (other than end-of-stream) or a remote call of an
\* Upload fails, that step returns the error and no remote call follows; a
\* session already opened is neither completed nor aborted and stays open;
\* no step of an Upload other than its successful return changes the bucket,
\* so the failed Upload commits nothing at the destination key.
C16_UploadFailure == [][UploadStepKeepsBucket]_vars

\* An Upload that failed with a session open: a part upload or the complete
\* call failed after a part had been stored.
C16_Witness ==
  /\ UploadFailed
  /\ mupload # 0
  /\ sessions[mupload].open
  /\ Len(mparts) >= 1

\* The bucket is empty or holds one object under the name the calls use.
\* Upload and Download sort nothing: tie plays no part.
Init ==
  /\ store \in {<<>>} \cup { (Join(prefix, n) :> Object(b, 0)) : n \in XferNames, b \in SeedBodies }
  /\ tie = "first"
  /\ lres = NoResult
  /\ conc = NoCalls
  /\ XferIdle

Next ==
  \/ UploadAny
  \/ UploadRead
  \/ UploadFlushSingle
  \/ UploadFlushMultipart
  \/ DownloadAny
  \/ DownloadRead

Spec == Init /\ [][Next]_vars

(***************************************************************************)
(* Termination of the chunk loops.                                         *)
(***************************************************************************)
\* A Read of the Upload loop that hands over bytes or reports end-of-stream.
UploadReadProgress == UploadRead /\ (src' # src \/ pc' = "flush")

\* A Read of the Download loop that hands over bytes or reports end-of-stream.
DownloadReadProgress == DownloadRead /\ (src' # src \/ ret'.status = "nil")

\* The calls run on: a reader that can hand over bytes or report
\* end-of-stream into the buffer it is given does so in the end (it may
\* return no bytes, or fewer than asked, any number of times before), and
\* the flush after the loop is carried out.
SpecLive ==
  /\ Init
  /\ [][Next]_vars
  /\ WF_vars(UploadReadProgress)
  /\ WF_vars(DownloadReadProgress)
  /\ WF_vars(UploadFlushSingle)
  /\ WF_vars(UploadFlushMultipart)

\* C20: the chunk loops of Upload and Download terminate: a call that is in
\* its read loop leaves it, whatever short or empty reads the reader makes
\* on the way.  (A Read that returns (0, nil) into a buffer of length 0
\* changes no variable: a loop that goes on with such reads for ever shows
\* as a behaviour that stays in one state with pc still in the loop.)
C20_ChunkLoopsTerminate ==
  /\ (pc = "upload") ~> (pc # "upload")
  /\ (pc = "download") ~> (pc # "download")

\* The loops terminate as long as no Read returns (0, nil): from a state in
\* which the buffer still has room, either the loop is left or the buffer
\* has shrunk to nothing.
LoopsTerminateOrBufferEmpty ==
  /\ (pc = "upload") ~> (pc # "upload" \/ blen = 0)
  /\ (pc = "download") ~> (pc # "download" \/ blen = 0)
====
